---- MODULE Spec2Model ----
(***************************************************************************)
(* The package resource handlers of src/app.py (Flask + SQLAlchemy         *)
(* session) as a state machine.  A request is received, its handler runs   *)
(* step by step (one step per store interaction), the "finally" clause     *)
(* closes the session, and the response is delivered.                      *)
(*                                                                         *)
(* Values.  JSON null / Python None is 0.  Every other value is a positive *)
(* number; text (special_handling_instructions) is abstracted to a number. *)
(***************************************************************************)
EXTENDS Integers, FiniteSets, Sequences, TLC

\* ------------------------------------------------------------------ bounds
MaxVal == 2        \* payload values are indexed 1..MaxVal
MaxPid == 2        \* product ids 1..MaxPid
MaxId == 2         \* store-assigned ids 1..MaxId
MaxRequests == 2   \* requests received in one behaviour
NumReqs == 2       \* request slots (requests that can be in flight at once)

Reqs == 1..NumReqs
Vals == 1..MaxVal
Pids == 1..MaxPid
Ids == 1..MaxId
Null == 0

\* ------------------------------------------------------------ the entity
\* Package columns other than the primary key (data_model.Package as the
\* handlers use it: app.py lines 93-100 and 138-142).
Attrs == {"height", "width", "depth", "weight", "special_handling_instructions"}
Columns == Attrs \cup {"product_id"}
\* The keys create reads with data[...], in the order it reads them.
Required == <<"product_id", "height", "width", "depth", "weight">>
RequiredSet == {Required[i] : i \in 1..Len(Required)}

EmptyObj == [k \in {} |-> Null]

\* ------------------------------------------------------------ the inputs
\* Distinct fields carry distinct values, so that a value stored under the
\* wrong field is visible: field k of payload family v carries Scale(k) + v.
Scale(k) ==
  CASE k = "height" -> 10
    [] k = "width" -> 20
    [] k = "depth" -> 30
    [] k = "weight" -> 40
    [] k = "special_handling_instructions" -> 50
    [] OTHER -> 0

\* A JSON object with the keys K: product_id p, every other key k Scale(k)+v.
Obj(K, p, v) == [k \in K |-> IF k = "product_id" THEN p ELSE Scale(k) + v]
\* The key sets of the payloads: at most one key, or at most one key missing.
KeySets ==
  {K \in SUBSET Columns : Cardinality(K) <= 1 \/ Cardinality(Columns \ K) <= 1}
\* request.get_json(): no body (None) or a JSON object.
NoBody == [present |-> FALSE, obj |-> EmptyObj]
Body(o) == [present |-> TRUE, obj |-> o]
\* Create payloads: the complete ones with every product id and value, the
\* incomplete ones once each.
CreateBodies ==
  {NoBody}
  \cup {Body(Obj(K, p, v)) : K \in {J \in KeySets : RequiredSet \subseteq J},
                              p \in Pids, v \in Vals}
  \cup {Body(Obj(K, 1, 1)) : K \in {J \in KeySets : ~(RequiredSet \subseteq J)}}
\* A JSON object that gives one attribute the value null.
NullBodies == {Body([k \in {a} |-> Null]) : a \in Attrs}
\* Update payloads: the key sets of at most one key with every value, the
\* larger ones with the highest value; a product_id in the payload is one
\* the seeded row does not have.
UpdateBodies ==
  {NoBody}
  \cup {Body(Obj(K, MaxPid, v)) : K \in {J \in KeySets : Cardinality(J) <= 1}, v \in Vals}
  \cup {Body(Obj(K, MaxPid, MaxVal)) : K \in KeySets}

Ops == {"get", "create", "update", "delete"}

\* ------------------------------------------------------------- the state
VARIABLES
  store,      \* committed rows: id -> [Columns -> value]
  nextId,     \* the id the store assigns to the next inserted row
  nreq,       \* requests received so far
  pc,         \* per request: position in its handler
  op,         \* per request: which handler
  key,        \* per request: the URL parameter (product_id or package_id)
  data,       \* per request: request.get_json()
  sess,       \* per request: "none" / "open" / "closed"
  began,      \* per request: the session has talked to the store
  ent,        \* per request: the Package instance held by the session
  out,        \* per request: the return value or the exception in flight
  calls,      \* per request: how often each session method was called
  committed,  \* per request: session.commit() succeeded
  pre,        \* per request: the store when the request was received
  deleted,    \* history: ids whose delete was answered 204
  submitted,  \* history: id -> the columns its create submitted, while untouched
  first       \* per request: the answer to the same request sent just before

vars == <<store, nextId, nreq, pc, op, key, data, sess, began, ent,
          out, calls, committed, pre, deleted, submitted, first>>

reqVars == <<pc, op, key, data, sess, began, ent, out, calls, committed, pre>>
histVars == <<deleted, submitted, first>>

\* ------------------------------------------------------- request records
\* has: an instance is held; looked: the query returned (with or without a row)
NoEnt == [has |-> FALSE, looked |-> FALSE, id |-> 0, loaded |-> EmptyObj,
          cur |-> EmptyObj]

\* cause: the call whose exception ended the try body (what the except
\* clauses log at lines 114, 163 and 184), kept when the answer replaces it
NoOut == [kind |-> "none", etype |-> "", status |-> 0, msg |-> "", arg |-> "",
          cause |-> "", body |-> EmptyObj, app |-> "", ver |-> ""]
\* return <body>, <status>
Return(status, body) == [NoOut EXCEPT !.kind = "return", !.status = status, !.body = body]
\* flask.abort(status, description): raises an HTTPException, which is an Exception
Abort(status, msg, arg) ==
  [NoOut EXCEPT !.kind = "raise", !.etype = "HTTPException", !.status = status,
                !.msg = msg, !.arg = arg]
\* any other exception; one that reaches Flask unhandled is answered 500
Raise(etype, arg) ==
  [NoOut EXCEPT !.kind = "raise", !.etype = etype, !.status = 500,
                !.msg = "Internal Server Error", !.arg = arg, !.cause = arg]

NoCalls == [acquire |-> 0, query |-> 0, add |-> 0, delete |-> 0, commit |-> 0,
            rollback |-> 0, close |-> 0, discovery |-> 0]

NoFirst == [valid |-> FALSE, body |-> EmptyObj]

\* "if not data": None and the empty object are both falsy.
Truthy(d) == d.present /\ DOMAIN d.obj # {}

\* The serialized field set of a row (lines 56-62 and 146-152).
Fields(row) == [k \in Attrs |-> row[k]]

\* The instance the session holds for row i after a query returned it.
Loaded(i, row) == [has |-> TRUE, looked |-> TRUE, id |-> i, loaded |-> row, cur |-> row]

\* ---------------------------------------------------------------- Init
\* The store outlives the process: it starts empty or holding a row an
\* earlier run created.
SeedRow == Obj(Columns, 1, 1)

Init ==
  /\ \/ store = EmptyObj /\ nextId = 1
     \/ store = (1 :> SeedRow) /\ nextId = 2
  /\ nreq = 0
  /\ pc = [r \in Reqs |-> "idle"]
  /\ op = [r \in Reqs |-> "get"]
  /\ key = [r \in Reqs |-> 0]
  /\ data = [r \in Reqs |-> NoBody]
  /\ sess = [r \in Reqs |-> "none"]
  /\ began = [r \in Reqs |-> FALSE]
  /\ ent = [r \in Reqs |-> NoEnt]
  /\ out = [r \in Reqs |-> NoOut]
  /\ calls = [r \in Reqs |-> NoCalls]
  /\ committed = [r \in Reqs |-> FALSE]
  /\ pre = [r \in Reqs |-> EmptyObj]
  /\ deleted = {}
  /\ submitted = EmptyObj
  /\ first = [r \in Reqs |-> NoFirst]

\* ------------------------------------------------------------- transport
\* Flask routes a request to its handler: <int:...> converters give the key.
Receive(r, o, k, d) ==
  /\ pc[r] = "idle"
  /\ nreq < MaxRequests
  /\ o = "create" => nextId <= MaxId
  /\ nreq' = nreq + 1
  /\ pc' = [pc EXCEPT ![r] = "recv"]
  /\ op' = [op EXCEPT ![r] = o]
  /\ key' = [key EXCEPT ![r] = k]
  /\ data' = [data EXCEPT ![r] = d]
  /\ pre' = [pre EXCEPT ![r] = store]
  /\ UNCHANGED <<store, nextId, sess, began, ent, out, calls, committed>>
  /\ UNCHANGED histVars

Inputs ==
  {<<"get", p, NoBody>> : p \in Pids}
  \cup {<<"create", 0, d>> : d \in CreateBodies}
  \cup {<<"update", i, d>> : i \in Ids, d \in UpdateBodies}
  \cup {<<"delete", i, NoBody>> : i \in Ids}

\* One request at a time: the next is received when the last was delivered.
ReceiveSeq ==
  /\ \A q \in Reqs : pc[q] = "idle"
  /\ \E in \in Inputs : Receive(1, in[1], in[2], in[3])

\* An update whose payload gives one attribute the value null.
ReceiveNull ==
  /\ \A q \in Reqs : pc[q] = "idle"
  /\ \E i \in Ids, d \in NullBodies : Receive(1, "update", i, d)

\* Requests handled at once (one worker thread each): a request is received
\* while others are in their handlers.  Each handler is entered on the seeded
\* row; the two updates set one attribute each, to a value the seeded row
\* does not have.
ConcInputs ==
  << <<"get", 1, NoBody>>,
     <<"create", 0, Body(Obj(Columns, 1, 1))>>,
     <<"delete", 1, NoBody>>,
     <<"update", 1, Body(Obj({"height"}, 1, MaxVal))>>,
     <<"update", 1, Body(Obj({"weight"}, 1, MaxVal))>> >>

\* The place in ConcInputs of the request in slot q.
RankOf(q) == CHOOSE n \in 1..Len(ConcInputs) : ConcInputs[n] = <<op[q], key[q], data[q]>>

\* As Receive, without the snapshot of the store in pre, which has no
\* meaning for a request that overlaps others.  Slots are interchangeable
\* and there is one for every request of a behaviour, so of the assignments
\* of requests to slots that differ only by a permutation one is kept: the
\* requests in flight are in the order of ConcInputs along the slots.
ReceiveConc ==
  \E r \in Reqs, n \in 1..Len(ConcInputs) :
    /\ pc[r] = "idle"
    /\ \A q \in Reqs : pc[q] # "idle" =>
          /\ q < r => RankOf(q) <= n
          /\ q > r => RankOf(q) >= n
    /\ nreq < MaxRequests
    /\ ConcInputs[n][1] = "create" => nextId <= MaxId
    /\ nreq' = nreq + 1
    /\ pc' = [pc EXCEPT ![r] = "recv"]
    /\ op' = [op EXCEPT ![r] = ConcInputs[n][1]]
    /\ key' = [key EXCEPT ![r] = ConcInputs[n][2]]
    /\ data' = [data EXCEPT ![r] = ConcInputs[n][3]]
    /\ UNCHANGED <<store, nextId, sess, began, ent, out, calls, committed, pre>>
    /\ UNCHANGED histVars

\* SessionMaker(): a new session, or the store is unavailable.
Acquire(r) ==
  /\ sess' = [sess EXCEPT ![r] = "open"]
  /\ calls' = [calls EXCEPT ![r].acquire = @ + 1]

\* The statement after "session = SessionMaker()" is reached, or the call
\* raised where no try block encloses it: Flask answers 500.
BeginSession(r, next) ==
  \/ /\ Acquire(r)
     /\ pc' = [pc EXCEPT ![r] = next]
     /\ UNCHANGED out
  \/ /\ calls' = [calls EXCEPT ![r].acquire = @ + 1]
     /\ out' = [out EXCEPT ![r] = Raise("Exception", "acquire")]
     /\ pc' = [pc EXCEPT ![r] = "done"]
     /\ UNCHANGED sess

\* ------------------------------------------- GET /packages/<product_id>
RetrieveBegin(r) ==
  /\ pc[r] = "recv" /\ op[r] = "get"
  /\ BeginSession(r, "query")
  /\ UNCHANGED <<store, nextId, nreq, op, key, data, began, ent, committed, pre>>
  /\ UNCHANGED histVars

\* session.query(Package).filter(Package.product_id == ...).first(): with no
\* ORDER BY the store may return any matching row.
RetrieveQuery(r) ==
  /\ pc[r] = "query" /\ op[r] = "get"
  /\ calls' = [calls EXCEPT ![r].query = @ + 1]
  /\ began' = [began EXCEPT ![r] = TRUE]
  /\ \/ /\ out' = [out EXCEPT ![r] = Raise("Exception", "query")]
        /\ pc' = [pc EXCEPT ![r] = "finally"]
        /\ UNCHANGED ent
     \/ LET hits == {i \in DOMAIN store : store[i]["product_id"] = key[r]}
        IN IF hits = {}
           THEN /\ pc' = [pc EXCEPT ![r] = "notfound"]
                /\ ent' = [ent EXCEPT ![r] = [NoEnt EXCEPT !.looked = TRUE]]
                /\ UNCHANGED out
           ELSE \E i \in hits :
                  /\ ent' = [ent EXCEPT ![r] = Loaded(i, store[i])]
                  /\ out' = [out EXCEPT ![r] = Return(200, Fields(store[i]))]
                  /\ pc' = [pc EXCEPT ![r] = "finally"]
  /\ UNCHANGED <<store, nextId, nreq, op, key, data, sess, committed, pre>>
  /\ UNCHANGED histVars

\* The outcomes of requests.get(discovery): a JSON object with or without
\* name and version, a connection error, a non-2xx status, a body that is
\* not JSON, a JSON body that is not an object.
Discovery == {"full", "noname", "noversion", "empty", "neterr", "non2xx",
              "notjson", "notobject"}

\* get_app_details(): only requests.exceptions.RequestException is caught.
\* ConnectionError, HTTPError (raise_for_status) and the JSONDecodeError of
\* response.json() are RequestExceptions; data.get on a list, a string or a
\* number raises AttributeError, which is not.
get_app_details(d) ==
  CASE d = "full" -> [raised |-> "", name |-> "shipping", version |-> "1.0"]
    [] d = "noname" -> [raised |-> "", name |-> "Unknown App", version |-> "1.0"]
    [] d = "noversion" -> [raised |-> "", name |-> "shipping", version |-> "Unknown Version"]
    [] d = "empty" -> [raised |-> "", name |-> "Unknown App", version |-> "Unknown Version"]
    [] d \in {"neterr", "non2xx", "notjson"} ->
         [raised |-> "", name |-> "Unknown App", version |-> "Unknown Version"]
    [] OTHER -> [raised |-> "AttributeError", name |-> "", version |-> ""]

\* The else branch of the get handler (lines 63-72).
RetrieveNotFound(r) ==
  /\ pc[r] = "notfound" /\ op[r] = "get"
  /\ calls' = [calls EXCEPT ![r].discovery = @ + 1]
  /\ \E d \in Discovery :
       LET a == get_app_details(d)
       IN out' = [out EXCEPT ![r] =
                    IF a.raised # ""
                    THEN Raise(a.raised, "")
                    ELSE [Abort(404, "The product_id was not found", "") EXCEPT
                            !.app = a.name, !.ver = a.version]]
  /\ pc' = [pc EXCEPT ![r] = "finally"]
  /\ UNCHANGED <<store, nextId, nreq, op, key, data, sess, began, ent, committed, pre>>
  /\ UNCHANGED histVars

\* ------------------------------------------------------ shared handler ends
\* Mutant of RollbackThen: the except clause answers without session.rollback().
AbortWithoutRollback(r, answer) ==
  /\ out' = [out EXCEPT ![r] = [answer EXCEPT !.cause = out[r].cause]]
  /\ pc' = [pc EXCEPT ![r] = "finally"]
  /\ UNCHANGED calls

\* session.rollback() in an except clause, then abort(...) with the clause's
\* answer.  A session that never reached the store has no transaction and
\* its rollback does nothing; otherwise the rollback itself may raise, and
\* that exception leaves the handler in place of the abort.
RollbackThen(r, answer) ==
  /\ calls' = [calls EXCEPT ![r].rollback = @ + 1]
  /\ \/ out' = [out EXCEPT ![r] = [answer EXCEPT !.cause = out[r].cause]]
     \/ /\ began[r]
        /\ out' = [out EXCEPT ![r] = [Raise("Exception", "rollback") EXCEPT
                                        !.cause = out[r].cause]]
  /\ pc' = [pc EXCEPT ![r] = "finally"]

\* Mutant of Finally: session.close() as the last statement of the try body
\* instead of a finally clause, so that an exception in flight skips it.
FinallyAfterBody(r) ==
  /\ pc[r] = "finally"
  /\ IF out[r].kind = "raise"
     THEN UNCHANGED <<sess, calls>>
     ELSE /\ sess' = [sess EXCEPT ![r] = "closed"]
          /\ calls' = [calls EXCEPT ![r].close = @ + 1]
  /\ pc' = [pc EXCEPT ![r] = "done"]
  /\ UNCHANGED <<store, nextId, nreq, op, key, data, began, ent, out, committed, pre>>
  /\ UNCHANGED histVars

\* finally: session.close()  (lines 73-74, 116-117, 165-166, 186-187)
Finally(r) ==
  /\ pc[r] = "finally"
  /\ sess' = [sess EXCEPT ![r] = "closed"]
  /\ calls' = [calls EXCEPT ![r].close = @ + 1]
  /\ pc' = [pc EXCEPT ![r] = "done"]
  /\ UNCHANGED <<store, nextId, nreq, op, key, data, began, ent, out, committed, pre>>
  /\ UNCHANGED histVars

\* The response leaves the process and the request's locals are gone.
Deliver(r) ==
  /\ pc[r] = "done"
  /\ pc' = [pc EXCEPT ![r] = "idle"]
  /\ op' = [op EXCEPT ![r] = "get"]
  /\ key' = [key EXCEPT ![r] = 0]
  /\ data' = [data EXCEPT ![r] = NoBody]
  /\ sess' = [sess EXCEPT ![r] = IF sess[r] = "open" THEN "open" ELSE "none"]
  /\ began' = [began EXCEPT ![r] = FALSE]
  /\ ent' = [ent EXCEPT ![r] = NoEnt]
  /\ out' = [out EXCEPT ![r] = NoOut]
  /\ calls' = [calls EXCEPT ![r] = NoCalls]
  /\ committed' = [committed EXCEPT ![r] = FALSE]
  /\ pre' = [pre EXCEPT ![r] = EmptyObj]
  /\ deleted' = IF op[r] = "delete" /\ out[r].status = 204
                THEN deleted \cup {key[r]} ELSE deleted
  /\ first' = [first EXCEPT ![r] = NoFirst]
  /\ UNCHANGED <<store, nextId, nreq, submitted>>

\* The client that got 200 for an update sends the same update again, with
\* no other request in between: the delivery above, then the same request.
Resend(r) ==
  /\ pc[r] = "done" /\ op[r] = "update" /\ out[r].status = 200
  /\ ~first[r].valid
  /\ nreq < MaxRequests
  /\ \A q \in Reqs \ {r} : pc[q] = "idle"
  /\ nreq' = nreq + 1
  /\ pc' = [pc EXCEPT ![r] = "recv"]
  /\ sess' = [sess EXCEPT ![r] = IF sess[r] = "open" THEN "open" ELSE "none"]
  /\ began' = [began EXCEPT ![r] = FALSE]
  /\ ent' = [ent EXCEPT ![r] = NoEnt]
  /\ out' = [out EXCEPT ![r] = NoOut]
  /\ calls' = [calls EXCEPT ![r] = NoCalls]
  /\ committed' = [committed EXCEPT ![r] = FALSE]
  /\ pre' = [pre EXCEPT ![r] = store]
  /\ first' = [first EXCEPT ![r] = [valid |-> TRUE, body |-> out[r].body]]
  /\ UNCHANGED <<store, nextId, op, key, data, deleted, submitted>>

\* ------------------------------------------------------- POST /packages
\* The first key of Required that data[...] does not find, or "" (lines 86-90).
FirstMissing(obj) ==
  LET miss == {i \in 1..Len(Required) : Required[i] \notin DOMAIN obj}
  IN IF miss = {} THEN ""
     ELSE Required[CHOOSE i \in miss : \A j \in miss : i <= j]

\* Package(product_id=..., ..., special_handling_instructions=data.get(...))
NewPackage(obj) ==
  [k \in Columns |-> IF k \in DOMAIN obj THEN obj[k] ELSE Null]

\* Lines 80-101: the body check, SessionMaker(), the field reads, session.add.
CreateBegin(r) ==
  /\ pc[r] = "recv" /\ op[r] = "create"
  /\ IF ~Truthy(data[r])
     THEN /\ out' = [out EXCEPT ![r] = Abort(400, "Missing JSON data in request body", "")]
          /\ pc' = [pc EXCEPT ![r] = "done"]
          /\ UNCHANGED <<sess, calls, ent>>
     ELSE \/ /\ calls' = [calls EXCEPT ![r].acquire = @ + 1]
             /\ out' = [out EXCEPT ![r] = Raise("Exception", "acquire")]
             /\ pc' = [pc EXCEPT ![r] = "done"]
             /\ UNCHANGED <<sess, ent>>
          \/ /\ sess' = [sess EXCEPT ![r] = "open"]
             /\ LET f == FirstMissing(data[r].obj)
                IN IF f # ""
                   THEN /\ out' = [out EXCEPT ![r] = Raise("KeyError", f)]
                        /\ pc' = [pc EXCEPT ![r] = "except"]
                        /\ calls' = [calls EXCEPT ![r].acquire = @ + 1]
                        /\ UNCHANGED ent
                   ELSE /\ calls' = [calls EXCEPT ![r].acquire = @ + 1, ![r].add = @ + 1]
                        /\ \/ /\ ent' = [ent EXCEPT ![r] =
                                    [NoEnt EXCEPT !.has = TRUE,
                                                  !.cur = NewPackage(data[r].obj)]]
                              /\ pc' = [pc EXCEPT ![r] = "commit"]
                              /\ UNCHANGED out
                           \/ /\ out' = [out EXCEPT ![r] = Raise("Exception", "add")]
                              /\ pc' = [pc EXCEPT ![r] = "except"]
                              /\ UNCHANGED ent
  /\ UNCHANGED <<store, nextId, nreq, op, key, data, began, committed, pre>>
  /\ UNCHANGED histVars

\* The store after the INSERT of a new row under the id it assigns.  The
\* schema is not part of the sources; the store is the one the specification
\* describes, which refuses no product_id for being in use.
Inserted(rows, i, row) == rows @@ (i :> row)

\* session.commit() (line 102): the INSERT is flushed and the store assigns
\* the id, or the store fails.  The handler checks nothing about product_id:
\* a uniqueness constraint in the schema would turn some of the successful
\* commits into failing ones, which the failing branch covers.
CreateCommit(r) ==
  /\ pc[r] = "commit" /\ op[r] = "create"
  /\ calls' = [calls EXCEPT ![r].commit = @ + 1]
  /\ began' = [began EXCEPT ![r] = TRUE]
  /\ \/ /\ store' = Inserted(store, nextId, ent[r].cur)
        /\ nextId' = nextId + 1
        /\ ent' = [ent EXCEPT ![r].id = nextId, ![r].loaded = ent[r].cur]
        /\ committed' = [committed EXCEPT ![r] = TRUE]
        /\ submitted' = submitted @@ (nextId :> ent[r].cur)
        /\ pc' = [pc EXCEPT ![r] = "respond"]
        /\ UNCHANGED out
     \/ /\ out' = [out EXCEPT ![r] = Raise("Exception", "commit")]
        /\ pc' = [pc EXCEPT ![r] = "except"]
        /\ UNCHANGED <<store, nextId, ent, committed, submitted>>
  /\ UNCHANGED <<nreq, op, key, data, sess, pre, deleted, first>>

\* return jsonify({"package_id": new_package.id}), 201 (line 105).  commit
\* expired the instance, so reading new_package.id loads the row again, and
\* that read can fail like any other.
CreateRespond(r) ==
  /\ pc[r] = "respond" /\ op[r] = "create"
  /\ \/ /\ ent[r].id \in DOMAIN store
        /\ out' = [out EXCEPT ![r] = Return(201, "package_id" :> ent[r].id)]
        /\ pc' = [pc EXCEPT ![r] = "finally"]
     \/ /\ out' = [out EXCEPT ![r] = Raise("Exception", "refresh")]
        /\ pc' = [pc EXCEPT ![r] = "except"]
  /\ UNCHANGED <<store, nextId, nreq, op, key, data, sess, began, ent, calls,
                 committed, pre>>
  /\ UNCHANGED histVars

\* The except clauses of create (lines 106-115).
CreateExcept(r) ==
  /\ pc[r] = "except" /\ op[r] = "create"
  /\ RollbackThen(r,
       CASE out[r].etype = "KeyError" ->
              Abort(400, "Missing required field", out[r].arg)
         [] out[r].etype = "ValueError" -> Abort(400, "Invalid data", out[r].arg)
         [] OTHER ->
              Abort(500, "An internal error occurred while creating the package.", ""))
  /\ UNCHANGED <<store, nextId, nreq, op, key, data, sess, began, ent, committed, pre>>
  /\ UNCHANGED histVars

\* ------------------------------------------- PUT /packages/<package_id>
\* Mutant of UpdateBegin: SessionMaker() called before the body check.
UpdateBeginSessionFirst(r) ==
  /\ pc[r] = "recv" /\ op[r] = "update"
  /\ \/ /\ calls' = [calls EXCEPT ![r].acquire = @ + 1]
        /\ out' = [out EXCEPT ![r] = Raise("Exception", "acquire")]
        /\ pc' = [pc EXCEPT ![r] = "done"]
        /\ UNCHANGED sess
     \/ /\ Acquire(r)
        /\ IF ~Truthy(data[r])
           THEN /\ out' = [out EXCEPT ![r] =
                             Abort(400, "Missing JSON data in request body", "")]
                /\ pc' = [pc EXCEPT ![r] = "done"]
           ELSE /\ pc' = [pc EXCEPT ![r] = "query"]
                /\ UNCHANGED out
  /\ UNCHANGED <<store, nextId, nreq, op, key, data, began, ent, committed, pre>>
  /\ UNCHANGED histVars

\* Lines 129-133: the body check and SessionMaker().
UpdateBegin(r) ==
  /\ pc[r] = "recv" /\ op[r] = "update"
  /\ IF ~Truthy(data[r])
     THEN /\ out' = [out EXCEPT ![r] = Abort(400, "Missing JSON data in request body", "")]
          /\ pc' = [pc EXCEPT ![r] = "done"]
          /\ UNCHANGED <<sess, calls>>
     ELSE BeginSession(r, "query")
  /\ UNCHANGED <<store, nextId, nreq, op, key, data, began, ent, committed, pre>>
  /\ UNCHANGED histVars

\* Mutant of Merge: data.get(<k>) with no default, so that an absent key
\* stores None.
MergeNoDefault(row, obj) ==
  [k \in Columns |-> IF k \in Attrs
                     THEN (IF k \in DOMAIN obj THEN obj[k] ELSE Null)
                     ELSE row[k]]

\* Mutant of Merge: the supplied value is added to the stored one.
MergeAdd(row, obj) ==
  [k \in Columns |-> IF k \in Attrs /\ k \in DOMAIN obj THEN row[k] + obj[k] ELSE row[k]]

\* Lines 138-142: package.<k> = data.get(<k>, package.<k>) for the five
\* attributes; no other column is assigned.
Merge(row, obj) ==
  [k \in Columns |-> IF k \in Attrs /\ k \in DOMAIN obj THEN obj[k] ELSE row[k]]

\* Lines 135-142 and 154: the query by id, then the merge or abort(404).
UpdateQuery(r) ==
  /\ pc[r] = "query" /\ op[r] = "update"
  /\ calls' = [calls EXCEPT ![r].query = @ + 1]
  /\ began' = [began EXCEPT ![r] = TRUE]
  /\ \/ /\ out' = [out EXCEPT ![r] = Raise("Exception", "query")]
        /\ pc' = [pc EXCEPT ![r] = "except"]
        /\ UNCHANGED ent
     \/ IF key[r] \in DOMAIN store
        THEN /\ ent' = [ent EXCEPT ![r] =
                   [Loaded(key[r], store[key[r]]) EXCEPT
                      !.cur = Merge(store[key[r]], data[r].obj)]]
             /\ pc' = [pc EXCEPT ![r] = "commit"]
             /\ UNCHANGED out
        ELSE /\ ent' = [ent EXCEPT ![r] = [NoEnt EXCEPT !.looked = TRUE]]
             /\ out' = [out EXCEPT ![r] = Abort(404, "The package_id was not found", "")]
             /\ pc' = [pc EXCEPT ![r] = "except"]
  /\ UNCHANGED <<store, nextId, nreq, op, key, data, sess, committed, pre>>
  /\ UNCHANGED histVars

\* The columns the session's flush writes: those whose value differs from
\* the value loaded (an attribute set to the value it had has no net change).
Dirty(e) == {k \in Columns : e.cur[k] # e.loaded[k]}

\* The store after the UPDATE of the session's instance.
Flushed(rows, e) ==
  [i \in DOMAIN rows |->
     IF i = e.id THEN [k \in Columns |-> IF k \in Dirty(e) THEN e.cur[k] ELSE rows[i][k]]
     ELSE rows[i]]

\* Mutant of UpdateCommit: a failed commit is attempted again.
UpdateCommitRetry(r) ==
  /\ pc[r] = "commit" /\ op[r] = "update"
  /\ calls' = [calls EXCEPT ![r].commit = @ + 1]
  /\ \/ /\ Dirty(ent[r]) = {} \/ ent[r].id \in DOMAIN store
        /\ store' = Flushed(store, ent[r])
        /\ committed' = [committed EXCEPT ![r] = TRUE]
        /\ submitted' = [i \in DOMAIN submitted \ {ent[r].id} |-> submitted[i]]
        /\ pc' = [pc EXCEPT ![r] = "respond"]
        /\ UNCHANGED out
     \/ /\ calls[r].commit = 0
        /\ UNCHANGED <<out, pc, store, committed, submitted>>
     \/ /\ calls[r].commit > 0
        /\ out' = [out EXCEPT ![r] = Raise("Exception", "commit")]
        /\ pc' = [pc EXCEPT ![r] = "except"]
        /\ UNCHANGED <<store, committed, submitted>>
  /\ UNCHANGED <<nextId, nreq, op, key, data, sess, began, ent, pre, deleted, first>>

\* session.commit() (line 144).  An UPDATE that matches no row makes the
\* flush raise.
UpdateCommit(r) ==
  /\ pc[r] = "commit" /\ op[r] = "update"
  /\ calls' = [calls EXCEPT ![r].commit = @ + 1]
  /\ \/ /\ Dirty(ent[r]) = {} \/ ent[r].id \in DOMAIN store
        /\ store' = Flushed(store, ent[r])
        /\ committed' = [committed EXCEPT ![r] = TRUE]
        /\ submitted' = [i \in DOMAIN submitted \ {ent[r].id} |-> submitted[i]]
        /\ pc' = [pc EXCEPT ![r] = "respond"]
        /\ UNCHANGED out
     \/ /\ out' = [out EXCEPT ![r] = Raise("Exception", "commit")]
        /\ pc' = [pc EXCEPT ![r] = "except"]
        /\ UNCHANGED <<store, committed, submitted>>
  /\ UNCHANGED <<nextId, nreq, op, key, data, sess, began, ent, pre, deleted, first>>

\* Lines 146-152: the response is built from the instance, which commit
\* expired: its attributes are read back from the store.
UpdateRespond(r) ==
  /\ pc[r] = "respond" /\ op[r] = "update"
  /\ \/ /\ ent[r].id \in DOMAIN store
        /\ ent' = [ent EXCEPT ![r].cur = store[ent[r].id]]
        /\ out' = [out EXCEPT ![r] = Return(200, Fields(store[ent[r].id]))]
        /\ pc' = [pc EXCEPT ![r] = "finally"]
     \/ /\ out' = [out EXCEPT ![r] = Raise("Exception", "refresh")]
        /\ pc' = [pc EXCEPT ![r] = "except"]
        /\ UNCHANGED ent
  /\ UNCHANGED <<store, nextId, nreq, op, key, data, sess, began, calls,
                 committed, pre>>
  /\ UNCHANGED histVars

\* The except clauses of update (lines 155-164).  abort(404) was raised
\* inside the try block: it is an Exception and the last clause catches it.
UpdateExcept(r) ==
  /\ pc[r] = "except" /\ op[r] = "update"
  /\ RollbackThen(r,
       CASE out[r].etype = "KeyError" ->
              Abort(400, "Invalid or missing field in update data", out[r].arg)
         [] out[r].etype = "ValueError" ->
              Abort(400, "Invalid data for update", out[r].arg)
         [] OTHER ->
              Abort(500, "An internal error occurred while updating the package.", ""))
  /\ UNCHANGED <<store, nextId, nreq, op, key, data, sess, began, ent, committed, pre>>
  /\ UNCHANGED histVars

\* ---------------------------------------- DELETE /packages/<package_id>
\* Mutant of DeleteBegin: one session for the query and a second one for
\* the delete, the first left as it is.
DeleteBeginTwoSessions(r) ==
  /\ pc[r] = "recv" /\ op[r] = "delete"
  /\ sess' = [sess EXCEPT ![r] = "open"]
  /\ calls' = [calls EXCEPT ![r].acquire = @ + 2]
  /\ pc' = [pc EXCEPT ![r] = "query"]
  /\ UNCHANGED <<store, nextId, nreq, op, key, data, began, ent, out, committed, pre>>
  /\ UNCHANGED histVars

\* Line 172: SessionMaker(); the body is never read.
DeleteBegin(r) ==
  /\ pc[r] = "recv" /\ op[r] = "delete"
  /\ BeginSession(r, "query")
  /\ UNCHANGED <<store, nextId, nreq, op, key, data, began, ent, committed, pre>>
  /\ UNCHANGED histVars

\* Lines 174-177 and 181: the query by id, then session.delete or abort(404).
DeleteQuery(r) ==
  /\ pc[r] = "query" /\ op[r] = "delete"
  /\ began' = [began EXCEPT ![r] = TRUE]
  /\ \/ /\ calls' = [calls EXCEPT ![r].query = @ + 1]
        /\ out' = [out EXCEPT ![r] = Raise("Exception", "query")]
        /\ pc' = [pc EXCEPT ![r] = "except"]
        /\ UNCHANGED ent
     \/ IF key[r] \in DOMAIN store
        THEN /\ calls' = [calls EXCEPT ![r].query = @ + 1, ![r].delete = @ + 1]
             /\ ent' = [ent EXCEPT ![r] = Loaded(key[r], store[key[r]])]
             /\ \/ /\ pc' = [pc EXCEPT ![r] = "commit"]
                   /\ UNCHANGED out
                \/ /\ out' = [out EXCEPT ![r] = Raise("Exception", "delete")]
                   /\ pc' = [pc EXCEPT ![r] = "except"]
        ELSE /\ calls' = [calls EXCEPT ![r].query = @ + 1]
             /\ ent' = [ent EXCEPT ![r] = [NoEnt EXCEPT !.looked = TRUE]]
             /\ out' = [out EXCEPT ![r] = Abort(404, "The package_id was not found", "")]
             /\ pc' = [pc EXCEPT ![r] = "except"]
  /\ UNCHANGED <<store, nextId, nreq, op, key, data, sess, committed, pre>>
  /\ UNCHANGED histVars

\* session.commit() and return '', 204 (lines 178-179).
DeleteCommit(r) ==
  /\ pc[r] = "commit" /\ op[r] = "delete"
  /\ calls' = [calls EXCEPT ![r].commit = @ + 1]
  /\ \/ /\ store' = [i \in DOMAIN store \ {ent[r].id} |-> store[i]]
        /\ committed' = [committed EXCEPT ![r] = TRUE]
        /\ submitted' = [i \in DOMAIN submitted \ {ent[r].id} |-> submitted[i]]
        /\ out' = [out EXCEPT ![r] = Return(204, EmptyObj)]
        /\ pc' = [pc EXCEPT ![r] = "finally"]
     \/ /\ out' = [out EXCEPT ![r] = Raise("Exception", "commit")]
        /\ pc' = [pc EXCEPT ![r] = "except"]
        /\ UNCHANGED <<store, committed, submitted>>
  /\ UNCHANGED <<nextId, nreq, op, key, data, sess, began, ent, pre, deleted, first>>

\* The except clause of delete (lines 182-185); it catches abort(404) too.
DeleteExcept(r) ==
  /\ pc[r] = "except" /\ op[r] = "delete"
  /\ RollbackThen(r,
       Abort(500, "An internal error occurred while deleting the package.", ""))
  /\ UNCHANGED <<store, nextId, nreq, op, key, data, sess, began, ent, committed, pre>>
  /\ UNCHANGED histVars

\* ------------------------------------------------------ the specification
Next ==
  \/ ReceiveSeq
  \/ \E r \in Reqs : RetrieveBegin(r)
  \/ \E r \in Reqs : RetrieveQuery(r)
  \/ \E r \in Reqs : RetrieveNotFound(r)
  \/ \E r \in Reqs : CreateBegin(r)
  \/ \E r \in Reqs : CreateCommit(r)
  \/ \E r \in Reqs : CreateRespond(r)
  \/ \E r \in Reqs : CreateExcept(r)
  \/ \E r \in Reqs : UpdateBegin(r)
  \/ \E r \in Reqs : UpdateQuery(r)
  \/ \E r \in Reqs : UpdateCommit(r)
  \/ \E r \in Reqs : UpdateRespond(r)
  \/ \E r \in Reqs : UpdateExcept(r)
  \/ \E r \in Reqs : DeleteBegin(r)
  \/ \E r \in Reqs : DeleteQuery(r)
  \/ \E r \in Reqs : DeleteCommit(r)
  \/ \E r \in Reqs : DeleteExcept(r)
  \/ \E r \in Reqs : Finally(r)
  \/ \E r \in Reqs : Deliver(r)
  \/ \E r \in Reqs : Resend(r)

Spec == Init /\ [][Next]_vars

\* The update handler on payloads with an explicit null.
NextNull ==
  \/ ReceiveNull
  \/ \E r \in Reqs : UpdateBegin(r)
  \/ \E r \in Reqs : UpdateQuery(r)
  \/ \E r \in Reqs : UpdateCommit(r)
  \/ \E r \in Reqs : UpdateRespond(r)
  \/ \E r \in Reqs : UpdateExcept(r)
  \/ \E r \in Reqs : Finally(r)
  \/ \E r \in Reqs : Deliver(r)

SpecNull == Init /\ [][NextNull]_vars

\* The handlers of requests that overlap in time.
NextConc ==
  \/ ReceiveConc
  \/ \E r \in Reqs : RetrieveBegin(r)
  \/ \E r \in Reqs : RetrieveQuery(r)
  \/ \E r \in Reqs : RetrieveNotFound(r)
  \/ \E r \in Reqs : CreateBegin(r)
  \/ \E r \in Reqs : CreateCommit(r)
  \/ \E r \in Reqs : CreateRespond(r)
  \/ \E r \in Reqs : CreateExcept(r)
  \/ \E r \in Reqs : UpdateBegin(r)
  \/ \E r \in Reqs : UpdateQuery(r)
  \/ \E r \in Reqs : UpdateCommit(r)
  \/ \E r \in Reqs : UpdateRespond(r)
  \/ \E r \in Reqs : UpdateExcept(r)
  \/ \E r \in Reqs : DeleteBegin(r)
  \/ \E r \in Reqs : DeleteQuery(r)
  \/ \E r \in Reqs : DeleteCommit(r)
  \/ \E r \in Reqs : DeleteExcept(r)
  \/ \E r \in Reqs : Finally(r)
  \/ \E r \in Reqs : Deliver(r)

SpecConc == Init /\ [][NextConc]_vars

\* ================================================================ claims
\* SessionMaker() returned a session to request r.
HasSession(r) == sess[r] # "none"
\* The handler of r has run past its first statements.
Entered(r) == pc[r] \notin {"idle", "recv"}
\* The query of r returned, and returned no row.
FoundNothing(r) == ent[r].looked /\ ~ent[r].has

C2_NotFoundIs404 ==
  \A r \in Reqs :
    pc[r] = "done" /\ FoundNothing(r) /\ out[r].etype # "AttributeError"
      /\ out[r].arg # "rollback"
    => /\ out[r].status = 404
       /\ out[r].msg \in {"The product_id was not found", "The package_id was not found"}
       /\ store = pre[r]

\* C3 (as claimed): the first delete of an existing id, its commit succeeding,
\* answers 204 and removes the Package; a later delete of the same id answers
\* 404.  (The second half is stated for deletes whose query returned and whose
\* rollback did not raise.)
C3_DeleteTwice ==
  \A r \in Reqs :
    pc[r] = "done" /\ op[r] = "delete"
    => /\ committed[r] => out[r].status = 204 /\ key[r] \notin DOMAIN store
       /\ key[r] \in deleted /\ FoundNothing(r) /\ out[r].arg # "rollback"
          => out[r].status = 404

\* What C4 says of one request with no JSON body: 400 with the fixed message,
\* decided with no session acquired and the store neither read nor written.
RejectedUnopened(r) ==
  /\ pc[r] = "done"
  /\ out[r].status = 400
  /\ out[r].msg = "Missing JSON data in request body"
  /\ calls[r] = NoCalls
  /\ sess[r] = "none"
  /\ store = pre[r]

\* C4 (as claimed): create, update and delete with no JSON body answer 400
\* before any session is acquired.
C4_NoBodyRejected ==
  \A r \in Reqs :
    Entered(r) /\ op[r] \in {"create", "update", "delete"} /\ ~data[r].present
    => RejectedUnopened(r)

\* C4 (amended): create and update with no JSON body answer 400 before any
\* session is acquired; delete never reads the body and calls SessionMaker
\* whatever the body is.
C4_NoBodyRejectedCreateUpdate ==
  \A r \in Reqs :
    Entered(r) /\ ~data[r].present
    => /\ op[r] \in {"create", "update"} => RejectedUnopened(r)
       /\ op[r] = "delete" => calls[r].acquire = 1

\* C4 witness: an update with no body has been answered.
C4_Witness ==
  \E r \in Reqs : pc[r] = "done" /\ op[r] = "update" /\ ~data[r].present

\* C5 (as claimed): a create whose JSON body lacks a required field answers
\* 400 naming the first missing field, and writes nothing: no add, no commit,
\* the store unchanged.  (Stated for the requests SessionMaker did not fail.)
C5_MissingFieldNamed ==
  \A r \in Reqs :
    pc[r] = "done" /\ op[r] = "create" /\ data[r].present
      /\ FirstMissing(data[r].obj) # "" /\ (HasSession(r) \/ calls[r].acquire = 0)
    => /\ out[r].status = 400
       /\ out[r].msg = "Missing required field"
       /\ out[r].arg = FirstMissing(data[r].obj)
       /\ calls[r].add = 0 /\ calls[r].commit = 0
       /\ store = pre[r]

\* C6 (as claimed): a create whose JSON body is present but lacks a required
\* field is rejected without SessionMaker being called.
C6_MissingFieldNoSession ==
  \A r \in Reqs :
    Entered(r) /\ op[r] = "create" /\ Truthy(data[r])
      /\ FirstMissing(data[r].obj) # ""
    => calls[r].acquire = 0

\* C7 (as claimed): a create whose commit succeeds answers 201 with the id the
\* store assigned, and a later get of its product_id, the Package untouched
\* in between, answers 200 with exactly the submitted fields.  (The second
\* half is stated for the gets whose query returned.)
C7_CreateThenGet ==
  \A r \in Reqs :
    pc[r] = "done"
    => /\ op[r] = "create" /\ committed[r]
          => /\ out[r].status = 201
             /\ out[r].body = ("package_id" :> ent[r].id)
             /\ ent[r].id \in DOMAIN store
             /\ store[ent[r].id] = NewPackage(data[r].obj)
       /\ op[r] = "get" /\ ent[r].looked
          => \A i \in DOMAIN submitted :
               submitted[i]["product_id"] = key[r]
               => out[r].status = 200 /\ out[r].body = Fields(submitted[i])

\* C8: a successful update sets each attribute present in its payload to the
\* supplied value, keeps each absent one, never changes id or product_id,
\* changes no other Package, and answers with the stored field set.
C8_UpdateFrame ==
  \A r \in Reqs :
    pc[r] = "done" /\ op[r] = "update" /\ out[r].status = 200
    => /\ key[r] \in DOMAIN pre[r]
       /\ DOMAIN store = DOMAIN pre[r]
       /\ \A k \in Attrs :
            store[key[r]][k] = IF k \in DOMAIN data[r].obj THEN data[r].obj[k]
                               ELSE pre[r][key[r]][k]
       /\ store[key[r]]["product_id"] = pre[r][key[r]]["product_id"]
       /\ \A j \in DOMAIN store \ {key[r]} : store[j] = pre[r][j]
       /\ out[r].body = Fields(store[key[r]])

\* C8 witness: a successful update whose payload names some attributes and
\* product_id but not all attributes, has changed the row, another row present.
C8_Witness ==
  \E r \in Reqs :
    /\ pc[r] = "done" /\ op[r] = "update" /\ out[r].status = 200
    /\ store[key[r]] # pre[r][key[r]]
    /\ "product_id" \in DOMAIN data[r].obj
    /\ Attrs \ DOMAIN data[r].obj # {}
    /\ Cardinality(DOMAIN store) > 1

\* C9: the same update applied twice in sequence, nothing in between, leaves
\* the store as the first application left it and answers the same body.
C9_UpdateIdempotent ==
  \A r \in Reqs :
    pc[r] = "done" /\ op[r] = "update" /\ first[r].valid
    => /\ committed[r] => store = pre[r]
       /\ out[r].status = 200 => out[r].body = first[r].body

\* C9 witness: the second of two equal updates has been answered 200, the
\* first having changed the row.
C9_Witness ==
  \E r \in Reqs :
    /\ pc[r] = "done" /\ op[r] = "update" /\ first[r].valid
    /\ out[r].status = 200 /\ committed[r]
    /\ key[r] = 1 /\ nextId = 2 /\ store[1] # SeedRow

\* C10 (as claimed): whatever the discovery call does, a get of an unknown
\* product_id answers 404 "The product_id was not found", with the discovery
\* name and version or the placeholders.
C10_DiscoveryNeverFails ==
  \A r \in Reqs :
    pc[r] = "done" /\ op[r] = "get" /\ calls[r].discovery = 1
    => /\ out[r].status = 404
       /\ out[r].msg = "The product_id was not found"
       /\ out[r].app \in {"shipping", "Unknown App"}
       /\ out[r].ver \in {"1.0", "Unknown Version"}

\* ------------------------------------------------------------------ C11
\* The store interactions of the writing handlers' try bodies.
StoreCalls == {"query", "add", "delete", "commit"}

Writers == {"create", "update", "delete"}

\* C11: in create, update and delete, when the query, add, delete or commit
\* raises, session.rollback() is called exactly once, before the 500 answer
\* replaces the exception and before session.close(); the store holds none
\* of the request's changes.
C11_RollbackOnceBeforeClose ==
  \A r \in Reqs :
    (pc[r] # "idle" /\ op[r] \in Writers /\ out[r].cause \in StoreCalls) =>
      /\ calls[r].rollback <= 1
      /\ out[r].status = 500
      /\ pc[r] = "except" <=> calls[r].rollback = 0
      /\ calls[r].rollback = 0 => (out[r].etype = "Exception" /\ calls[r].close = 0)
      /\ calls[r].close = 1 <=> pc[r] = "done"
      /\ pc[r] = "done" => (calls[r].rollback = 1 /\ sess[r] = "closed")
      /\ pc[r] \in {"except", "finally"} => sess[r] = "open"
      /\ ~committed[r]
      /\ store = pre[r]

C11_Witness ==
  \E r \in Reqs :
    /\ pc[r] = "done" /\ op[r] = "update" /\ out[r].cause = "commit"
    /\ Dirty(ent[r]) # {}
    /\ calls[r].rollback = 1 /\ calls[r].close = 1
    /\ out[r].etype = "HTTPException" /\ out[r].status = 500

\* ------------------------------------------------------------------ C12
\* The keys a payload gives the value null.
NullKeys(obj) == {k \in DOMAIN obj : obj[k] = Null}

\* C12: an update of an existing package whose payload gives a required
\* attribute the value null is answered 400 and leaves the store as it was;
\* one that gives special_handling_instructions null is answered 200 and the
\* row then holds null there (no store call failing).
C12_NullRequiredRejected ==
  \A r \in Reqs :
    (/\ pc[r] = "done" /\ op[r] = "update" /\ data[r].present
     /\ key[r] \in DOMAIN pre[r] /\ out[r].cause = "") =>
      /\ NullKeys(data[r].obj) \cap RequiredSet # {} =>
            (out[r].status = 400 /\ store = pre[r])
      /\ NullKeys(data[r].obj) = {"special_handling_instructions"} =>
            /\ out[r].status = 200
            /\ key[r] \in DOMAIN store
            /\ store[key[r]]["special_handling_instructions"] = Null

\* ------------------------------------------------------------------ C13
\* C13: an update of an existing package with a JSON object holding any
\* subset of the updatable fields, the empty object included, is answered
\* 200 with the row's five fields (no store call failing); the answer 400
\* "Missing JSON data in request body" is given only to a request without
\* a body.
C13_AnySubsetUpdates ==
  \A r \in Reqs :
    (pc[r] = "done" /\ op[r] = "update" /\ out[r].cause = "") =>
      /\ (data[r].present /\ key[r] \in DOMAIN pre[r]) =>
            /\ out[r].status = 200
            /\ key[r] \in DOMAIN store
            /\ out[r].body = Fields(store[key[r]])
      /\ (out[r].status = 400 /\ out[r].msg = "Missing JSON data in request body") =>
            ~data[r].present

\* ------------------------------------------------------------------ C14
\* C14: no two rows of the store have the same product_id.
C14_ProductIdUnique ==
  \A i, j \in DOMAIN store :
    store[i]["product_id"] = store[j]["product_id"] => i = j

\* ------------------------------------------------------------------ C15
InFlight == {r \in Reqs : pc[r] # "idle"}
OpenSessions == {r \in Reqs : sess[r] = "open"}
\* The session calls request r has made after SessionMaker().
SessionCalls(r) ==
  calls[r].query + calls[r].add + calls[r].delete + calls[r].commit
    + calls[r].rollback + calls[r].close

Attempts == <<"acquire", "query", "add", "delete", "commit">>

C17_StatusAgreesWithStore ==
  \A r \in Reqs :
    (pc[r] = "done" /\ op[r] \in Writers) =>
      /\ out[r].status \notin {200, 201, 204} => store = pre[r]
      /\ committed[r] => out[r].status \in {200, 201, 204}

\* ------------------------------------------------------------------ C18
\* Request r is an update whose payload holds one attribute and whose
\* commit succeeded.
UpdatedOne(r) ==
  /\ pc[r] # "idle" /\ op[r] = "update" /\ data[r].present
  /\ Cardinality(DOMAIN data[r].obj) = 1 /\ DOMAIN data[r].obj \subseteq Attrs
  /\ committed[r]

============================================================================
